---- MODULE Spec2Model ----
(***************************************************************************)
(* PriceHawk: the ingestion endpoint ingest_avito                          *)
(* (backend/apps/tracking/views.py) over the tables Ad, PricePoint and     *)
(* ParseTarget (backend/apps/tracking/models.py).                          *)
(*                                                                         *)
(* Several workers serve requests at once.  Each request runs the handler  *)
(* top to bottom; the part inside transaction.atomic() is one database     *)
(* transaction at READ COMMITTED: a statement sees the committed rows and  *)
(* the transaction's own writes, a written row stays locked until the      *)
(* transaction ends, an insert of a key another open transaction has       *)
(* inserted waits for that transaction, and the database aborts one        *)
(* transaction of a wait cycle.                                            *)
(*                                                                         *)
(* An optional value (Python None) is a sequence of length at most one:    *)
(* <<>> is None and <<x>> is x.                                            *)
(***************************************************************************)
EXTENDS Integers, Sequences, FiniteSets, TLC

VARIABLES
    secret,        \* settings.INGEST_HMAC_SECRET, an optional string
    targets,       \* ids of the ParseTarget rows
    ads,           \* committed Ad rows
    price_points,  \* committed PricePoint rows
    ad_seq,        \* last value of the Ad id sequence
    pp_seq,        \* last value of the PricePoint id sequence
    clock,         \* the server clock read by timezone.now()
    calls,         \* requests received so far
    accepted,      \* raw bodies of the calls that committed
    pc,            \* per worker: where its handler stands
    req,           \* per worker: the request it serves
    loc,           \* per worker: the handler's local variables, and what
                   \* the call found when it began (before, repeat) and
                   \* did (made)
    tx,            \* per worker: uncommitted writes of its transaction
    resp           \* per worker: the response it returned

vars == <<secret, targets, ads, price_points, ad_seq, pp_seq, clock, calls,
          accepted, pc, req, loc, tx, resp>>

Workers == {"w1", "w2"}

\* Bounds of the model.
MaxCalls == 2
Clock0 == 10

None == <<>>
Some(x) == <<x>>

----------------------------------------------------------------------------
(* Requests: the raw body and the X-Signature header.                      *)

Obj(f) == [kind |-> "object", fields |-> f]

ItemChair == Obj([external_id |-> "a", title |-> "Chair", price |-> 500,
                  currency |-> "RUB"])
ItemChairUSD == Obj([external_id |-> "a", title |-> "Chair", price |-> 500,
                     currency |-> "USD"])
ItemChair600 == Obj([external_id |-> "a", title |-> "Chair", price |-> 600])
ItemBare == Obj([external_id |-> "a"])
ItemDesk == Obj([external_id |-> "b", title |-> "Desk", url |-> "http://d",
                 seller_name |-> "Ann", seller_id |-> "s1",
                 location |-> "Kazan", price |-> 700, posted_at |-> 1,
                 is_active |-> FALSE])
ItemNoId == Obj([title |-> "Lamp", price |-> 500])
ItemEmptyId == Obj([external_id |-> "", price |-> 500])
ItemString == [kind |-> "string"]

\* JSON objects a scraper may post.
Payloads == {
    [items |-> <<ItemChair, ItemDesk>>, target_id |-> 7, fetched_at |-> 1],
    [items |-> <<ItemDesk, ItemChair>>, fetched_at |-> 2],
    [items |-> <<ItemChair>>, target_id |-> 7],
    [items |-> <<ItemChairUSD>>, target_id |-> 7, fetched_at |-> 1],
    [items |-> <<ItemBare>>, fetched_at |-> 2],
    [items |-> <<ItemChair, ItemString>>, fetched_at |-> 1],
    [items |-> <<ItemNoId, ItemEmptyId, ItemDesk>>, fetched_at |-> 1],
    [items |-> <<ItemChair, ItemChair600>>, fetched_at |-> 1],
    [items |-> <<ItemDesk>>, target_id |-> 9, fetched_at |-> 1],
    [source |-> "youla", items |-> <<ItemChair>>, fetched_at |-> 1],
    [fetched_at |-> 1] }

\* Raw bodies: a JSON object, another JSON value, text that is not JSON,
\* bytes that are not UTF-8.
ObjectBodies == {[kind |-> "object", fields |-> p] : p \in Payloads}
OtherBodies == {[kind |-> "array"], [kind |-> "null"], [kind |-> "garbage"],
                [kind |-> "not_utf8"]}
Bodies == ObjectBodies \cup OtherBodies

Secrets == {None, Some(""), Some("k")}

\* hex(HMAC_SHA256(key, body)); distinct keys or bodies give distinct digests.
HexDigest(key, body) == [hex |-> TRUE, key |-> key, body |-> body]
NoSignature == [hex |-> FALSE, key |-> "", body |-> [kind |-> "null"]]
NonAsciiSignature == [hex |-> FALSE, key |-> "\\xe9", body |-> [kind |-> "null"]]
TamperedBody == [kind |-> "object",
                 fields |-> [items |-> <<ItemChair600>>, fetched_at |-> 1]]

Requests ==
    {[body |-> b, signature |-> HexDigest("k", b)] : b \in Bodies}
    \cup {[body |-> TamperedBody, signature |-> s] :
            s \in {NoSignature, NonAsciiSignature,
                   HexDigest("k", [kind |-> "object", fields |-> [fetched_at |-> 1]]),
                   HexDigest("other", TamperedBody)}}

----------------------------------------------------------------------------
(* Pure helpers of the handler.                                            *)

\* dict.get(f, d)
Get(d, f, dflt) == IF f \in DOMAIN d THEN d[f] ELSE dflt
\* dict.get(f): None when the key is absent
GetOpt(d, f) == IF f \in DOMAIN d THEN Some(d[f]) ELSE None

\* hmac.compare_digest(expected, signature) on two str: "raise" stands for
\* the TypeError it raises when a string holds a non-ASCII character.
CompareDigest(expected, signature) ==
    IF signature = NonAsciiSignature THEN "raise"
    ELSE IF expected = signature THEN "equal" ELSE "differ"

\* _valid_signature(raw_body, signature, secret)
ValidSignature(raw, signature, key) ==
    IF signature = NoSignature THEN "differ"
    ELSE CompareDigest(HexDigest(key, raw), signature)

\* A variant of CollectedAt that always takes the receipt time.
CollectedAtReceipt(payload, now) == now

\* Line 95: payload.get("fetched_at") or timezone.now().isoformat()
CollectedAt(payload, now) ==
    IF "fetched_at" \in DOMAIN payload THEN payload.fetched_at ELSE now

\* json.loads(raw.decode("utf-8")): the exception raised, or "ok".
JsonLoads(raw) ==
    CASE raw.kind = "not_utf8" -> "UnicodeDecodeError"
      [] raw.kind = "garbage" -> "JSONDecodeError"
      [] OTHER -> "ok"

Response(status, detail, c, u, p) ==
    [status |-> status, detail |-> detail, created |-> c, updated |-> u,
     price_points |-> p]

NoLoc == [items |-> <<>>, source |-> "", target_id |-> None, fetched_at |-> 0,
          i |-> 0, created |-> 0, updated |-> 0, price_points |-> 0,
          ad |-> 0, retry |-> FALSE, made |-> {}, before |-> {},
          repeat |-> FALSE]
NoTx == [ads |-> {}, pps |-> {}]
NoReq == [body |-> [kind |-> "null"], signature |-> NoSignature]
NoResp == Response(0, "", 0, 0, 0)

Item(w) == loc[w].items[loc[w].i]
RowKey(r) == <<r.source, r.external_id>>
ItemKey(w) == <<loc[w].source, Item(w).fields.external_id>>
Ids(rows) == {r.id : r \in rows}

\* the defaults dict of update_or_create
Defaults(item, target_id) ==
    [title |-> Get(item, "title", ""),
     url |-> Get(item, "url", ""),
     seller_name |-> Get(item, "seller_name", ""),
     seller_id |-> Get(item, "seller_id", ""),
     location |-> Get(item, "location", ""),
     currency |-> Get(item, "currency", "RUB"),
     price_current |-> GetOpt(item, "price"),
     posted_at |-> GetOpt(item, "posted_at"),
     is_active |-> Get(item, "is_active", TRUE),
     target_id |-> target_id]

AdRow(id, key, d, seen, made_at) ==
    [id |-> id, source |-> key[1], external_id |-> key[2],
     target_id |-> d.target_id, title |-> d.title, url |-> d.url,
     seller_name |-> d.seller_name, seller_id |-> d.seller_id,
     location |-> d.location, currency |-> d.currency,
     price_current |-> d.price_current, posted_at |-> d.posted_at,
     is_active |-> d.is_active, last_seen_at |-> seen, created_at |-> made_at]

\* A variant of UpdatedRow that stamps created_at again on every save.
UpdatedRowStampsCreated(old, d, seen) ==
    AdRow(old.id, RowKey(old), d, seen, seen)

\* A variant of UpdatedRow that keeps the target the Ad was first found
\* under.
UpdatedRowKeepsTarget(old, d, seen) ==
    AdRow(old.id, RowKey(old), [d EXCEPT !.target_id = old.target_id], seen,
          old.created_at)

\* update_or_create on a row found: every field of the defaults is set and
\* the row saved; auto_now refreshes last_seen_at, created_at stays.
UpdatedRow(old, d, seen) ==
    AdRow(old.id, RowKey(old), d, seen, old.created_at)

----------------------------------------------------------------------------
(* What a transaction sees and waits for.                                  *)

AdView(w) == {r \in ads : r.id \notin Ids(tx[w].ads)} \cup tx[w].ads
PricePointView(w) == price_points \cup tx[w].pps

\* the worker whose open transaction wrote the Ad row `id`
LockedBy(o, id) == id \in Ids(tx[o].ads)
\* the worker whose open transaction inserted an Ad with this key
InsertedBy(o, key) ==
    \E r \in tx[o].ads : RowKey(r) = key /\ r.id \notin Ids(ads)

Init ==
    /\ secret \in Secrets
    /\ targets = {7}
    /\ ads = {}
    /\ price_points = {}
    /\ ad_seq = 0
    /\ pp_seq = 0
    /\ clock = Clock0
    /\ calls = 0
    /\ accepted = {}
    /\ pc = [w \in Workers |-> "idle"]
    /\ req = [w \in Workers |-> NoReq]
    /\ loc = [w \in Workers |-> NoLoc]
    /\ tx = [w \in Workers |-> NoTx]
    /\ resp = [w \in Workers |-> NoResp]


----------------------------------------------------------------------------
(* The handler, one action per step of ingest_avito.                       *)

\* A variant of AfterRollback without the atomic block: every statement
\* that ran stays written.
AfterRollbackKeepsWrites(w) ==
    [ads |-> {r \in ads : r.id \notin Ids(tx[w].ads)} \cup tx[w].ads,
     price_points |-> price_points \cup tx[w].pps]

\* A variant of AfterCommit that keeps only the newest price points of the
\* Ads the transaction priced.
AfterCommitLatestOnly(w) ==
    [ads |-> {r \in ads : r.id \notin Ids(tx[w].ads)} \cup tx[w].ads,
     price_points |->
        {p \in price_points : \A q \in tx[w].pps : q.ad # p.ad}
        \cup tx[w].pps]

\* The committed tables when a transaction ends.
AfterRollback(w) == [ads |-> ads, price_points |-> price_points]
AfterCommit(w) ==
    [ads |-> {r \in ads : r.id \notin Ids(tx[w].ads)} \cup tx[w].ads,
     price_points |-> price_points \cup tx[w].pps]

\* A request arrives at an idle worker.
Receive(w, r) ==
    /\ pc[w] = "idle"
    /\ calls < MaxCalls
    /\ calls' = calls + 1
    /\ req' = [req EXCEPT ![w] = r]
    /\ pc' = [pc EXCEPT ![w] = "received"]
    /\ UNCHANGED <<secret, targets, ads, price_points, ad_seq, pp_seq, clock,
                   accepted, loc, tx, resp>>

\* The handler returns (or an exception leaves it) outside the transaction.
Return(w, r) ==
    /\ resp' = [resp EXCEPT ![w] = r]
    /\ pc' = [pc EXCEPT ![w] = "done"]
    /\ UNCHANGED <<secret, targets, ads, price_points, ad_seq, pp_seq, clock,
                   calls, accepted, req, loc, tx>>

\* An exception leaves the atomic block: the transaction rolls back and the
\* request ends with a server error.
Abort(w, error) ==
    /\ ads' = AfterRollback(w).ads
    /\ price_points' = AfterRollback(w).price_points
    /\ tx' = [tx EXCEPT ![w] = NoTx]
    /\ resp' = [resp EXCEPT ![w] = Response(500, error, 0, 0, 0)]
    /\ pc' = [pc EXCEPT ![w] = "done"]
    /\ UNCHANGED <<secret, targets, ad_seq, pp_seq, clock, calls, accepted,
                   req, loc>>

\* Lines 79-85: the signature check.
Authenticate(w) ==
    /\ pc[w] = "received"
    /\ IF secret = None \/ secret = Some("")
       THEN Return(w, Response(401, "Invalid signature", 0, 0, 0))
       ELSE LET v == ValidSignature(req[w].body, req[w].signature, secret[1])
            IN  CASE v = "raise" -> Return(w, Response(500, "TypeError", 0, 0, 0))
                  [] v = "differ" ->
                       Return(w, Response(401, "Invalid signature", 0, 0, 0))
                  [] OTHER ->
                       /\ pc' = [pc EXCEPT ![w] = "authenticated"]
                       /\ UNCHANGED <<secret, targets, ads, price_points,
                                      ad_seq, pp_seq, clock, calls, accepted,
                                      req, loc, tx, resp>>

\* Lines 87-98: parse the body, read the payload, open the transaction.
Parse(w) ==
    /\ pc[w] = "authenticated"
    /\ LET raw == req[w].body
           loaded == JsonLoads(raw)
       IN  CASE loaded = "JSONDecodeError" ->
                  Return(w, Response(400, "Invalid JSON", 0, 0, 0))
             [] loaded = "UnicodeDecodeError" ->
                  Return(w, Response(500, "UnicodeDecodeError", 0, 0, 0))
             [] loaded = "ok" /\ raw.kind # "object" ->
                  \* payload.get on a list, a str, a number or None
                  Return(w, Response(500, "AttributeError", 0, 0, 0))
             [] OTHER ->
                  LET payload == raw.fields
                      timed == "fetched_at" \in DOMAIN payload
                  IN  /\ loc' = [loc EXCEPT ![w] =
                             [NoLoc EXCEPT
                                !.items = Get(payload, "items", <<>>),
                                !.source = Get(payload, "source", "avito"),
                                !.target_id = GetOpt(payload, "target_id"),
                                !.fetched_at = CollectedAt(payload, clock),
                                !.i = 1,
                                !.before = {RowKey(r) : r \in ads},
                                !.repeat = raw \in accepted]]
                      /\ clock' = IF timed THEN clock ELSE clock + 1
                      /\ pc' = [pc EXCEPT ![w] = "loop"]
                      /\ UNCHANGED <<secret, targets, ads, price_points,
                                     ad_seq, pp_seq, calls, accepted, req, tx,
                                     resp>>

\* Variant of Skipped: only an absent external_id is passed over.
SkippedWhenAbsent(item) == "external_id" \notin DOMAIN item

\* Line 100-102, `if not ext_id`: an item whose external_id is absent or
\* empty is passed over.
Skipped(item) == Get(item, "external_id", "") = ""

\* Variant of PriceOf: an absent price read as zero.
PriceOrZero(item) ==
    IF "price" \in DOMAIN item THEN Some(item.price) ELSE Some(0)

\* Line 121, item.get("price"): the price of an item, None when absent.
PriceOf(item) == GetOpt(item, "price")

\* Variant of Tally: every upsert counts as created.
TallyCreatedEach(l, is_created) ==
    [l EXCEPT !.created = @ + 1,
              !.updated = @ + (IF is_created THEN 0 ELSE 1)]

\* Variant of Tally: the two counters exchanged.
TallySwapped(l, is_created) ==
    [l EXCEPT !.created = @ + (IF is_created THEN 0 ELSE 1),
              !.updated = @ + (IF is_created THEN 1 ELSE 0)]

\* Lines 118-119: created += int(is_created); updated += int(not is_created).
Tally(l, is_created) ==
    [l EXCEPT !.created = @ + (IF is_created THEN 1 ELSE 0),
              !.updated = @ + (IF is_created THEN 0 ELSE 1)]

\* Variant of CountPrice: only an inserted row is counted.
CountPriceInserted(l, inserted) ==
    [l EXCEPT !.price_points = @ + (IF inserted THEN 1 ELSE 0)]

\* Line 128: price_points += 1 after get_or_create, whether or not the call
\* inserted a row.
CountPrice(l, inserted) == [l EXCEPT !.price_points = @ + 1]

\* Lines 99-102: the loop head.
NextItem(w) ==
    /\ pc[w] = "loop"
    /\ IF loc[w].i > Len(loc[w].items)
       THEN /\ pc' = [pc EXCEPT ![w] = "commit"]
            /\ UNCHANGED <<secret, targets, ads, price_points, ad_seq, pp_seq,
                           clock, calls, accepted, req, loc, tx, resp>>
       ELSE IF Item(w).kind # "object"
       THEN Abort(w, "AttributeError")
       ELSE IF Skipped(Item(w).fields)
       THEN /\ loc' = [loc EXCEPT ![w].i = @ + 1]
            /\ UNCHANGED <<secret, targets, ads, price_points, ad_seq, pp_seq,
                           clock, calls, accepted, pc, req, tx, resp>>
       ELSE /\ pc' = [pc EXCEPT ![w] = "get"]
            /\ loc' = [loc EXCEPT ![w].retry = FALSE]
            /\ UNCHANGED <<secret, targets, ads, price_points, ad_seq, pp_seq,
                           clock, calls, accepted, req, tx, resp>>


\* Variants of AdInsertOutcome: no unique index at all, and an index that
\* does not wait for an uncommitted insert of the same key.
AdInsertUnchecked(w, key) == "ok"
AdInsertNoWait(w, key) ==
    IF \E r \in ads : RowKey(r) = key THEN "conflict" ELSE "ok"

\* The unique index ad_source_external_id_uniq at an INSERT: the key is
\* committed ("conflict": IntegrityError), another open transaction has
\* inserted it ("wait": the insert blocks until that transaction ends), or
\* it is free ("ok").
AdInsertOutcome(w, key) ==
    IF \E r \in ads : RowKey(r) = key THEN "conflict"
    ELSE IF \E o \in Workers \ {w} : InsertedBy(o, key) THEN "wait"
    ELSE "ok"

\* The unique index price_point_ad_dt_price_uniq at an INSERT.
PricePointConflict(w, ad, collected_at, price) ==
    \E p \in PricePointView(w) :
        p.ad = ad /\ p.collected_at = collected_at /\ p.price = price

\* Variant of PricePointLookup: the row is looked up by Ad and collection
\* time alone.
PricePointLookupByTime(w, ad, price, currency, collected_at) ==
    {p \in PricePointView(w) : p.ad = ad /\ p.collected_at = collected_at}

\* PricePoint.objects.get(ad=, price=, currency=, collected_at=)
PricePointLookup(w, ad, price, currency, collected_at) ==
    {p \in PricePointView(w) :
        /\ p.ad = ad
        /\ p.price = price
        /\ p.currency = currency
        /\ p.collected_at = collected_at}

\* Lines 115-119, update_or_create: SELECT ... FOR UPDATE by (source,
\* external_id); a row found is locked, overwritten with the defaults and
\* saved (auto_now refreshes last_seen_at); none found leads to the INSERT.
\* The step waits while another transaction holds the row.
GetAd(w) ==
    /\ pc[w] = "get"
    /\ LET found == {r \in AdView(w) : RowKey(r) = ItemKey(w)}
       IN  IF found = {}
           THEN IF loc[w].retry
                THEN Abort(w, "IntegrityError: ad_source_external_id_uniq")
                ELSE /\ pc' = [pc EXCEPT ![w] = "create"]
                     /\ UNCHANGED <<secret, targets, ads, price_points, ad_seq,
                                    pp_seq, clock, calls, accepted, req, loc,
                                    tx, resp>>
           ELSE LET old == CHOOSE r \in found : TRUE
                    new == UpdatedRow(old,
                               Defaults(Item(w).fields, loc[w].target_id),
                               clock)
                IN  /\ \A o \in Workers \ {w} : ~LockedBy(o, old.id)
                    /\ tx' = [tx EXCEPT ![w].ads =
                                 {r \in @ : r.id # old.id} \cup {new}]
                    /\ clock' = clock + 1
                    /\ loc' = [loc EXCEPT ![w] =
                                  Tally([@ EXCEPT !.ad = old.id], FALSE)]
                    /\ pc' = [pc EXCEPT ![w] = "price"]
                    /\ UNCHANGED <<secret, targets, ads, price_points, ad_seq,
                                   pp_seq, calls, accepted, req, resp>>

\* get_or_create's INSERT inside update_or_create (auto_now_add sets
\* created_at, auto_now sets last_seen_at); on IntegrityError the row is
\* fetched again.
CreateAd(w) ==
    /\ pc[w] = "create"
    /\ LET outcome == AdInsertOutcome(w, ItemKey(w))
           new == AdRow(ad_seq + 1, ItemKey(w),
                        Defaults(Item(w).fields, loc[w].target_id),
                        clock, clock)
       IN  /\ outcome # "wait"
           /\ IF outcome = "conflict"
              THEN /\ loc' = [loc EXCEPT ![w].retry = TRUE]
                   /\ pc' = [pc EXCEPT ![w] = "get"]
                   /\ UNCHANGED <<secret, targets, ads, price_points, ad_seq,
                                  pp_seq, clock, calls, accepted, req, tx,
                                  resp>>
              ELSE /\ ad_seq' = ad_seq + 1
                   /\ clock' = clock + 1
                   /\ tx' = [tx EXCEPT ![w].ads = @ \cup {new}]
                   /\ loc' = [loc EXCEPT ![w] =
                                 Tally([@ EXCEPT !.ad = new.id,
                                                 !.made = @ \cup {ItemKey(w)}],
                                       TRUE)]
                   /\ pc' = [pc EXCEPT ![w] = "price"]
                   /\ UNCHANGED <<secret, targets, ads, price_points, pp_seq,
                                  calls, accepted, req, resp>>

\* Lines 121-128, PricePoint.objects.get_or_create.  The transaction holds
\* the Ad row, so no other transaction writes this Ad's price points between
\* the lookup and the insert.
RecordPrice(w) ==
    /\ pc[w] = "price"
    /\ LET item == Item(w).fields
           currency == Get(item, "currency", "RUB")
           at == loc[w].fetched_at
           price == PriceOf(item)
       IN  IF price = None
           THEN /\ loc' = [loc EXCEPT ![w].i = @ + 1]
                /\ pc' = [pc EXCEPT ![w] = "loop"]
                /\ UNCHANGED <<secret, targets, ads, price_points, ad_seq,
                               pp_seq, clock, calls, accepted, req, tx, resp>>
           ELSE IF PricePointLookup(w, loc[w].ad, price[1], currency, at) # {}
           THEN /\ loc' = [loc EXCEPT ![w] =
                               CountPrice([@ EXCEPT !.i = @ + 1], FALSE)]
                /\ pc' = [pc EXCEPT ![w] = "loop"]
                /\ UNCHANGED <<secret, targets, ads, price_points, ad_seq,
                               pp_seq, clock, calls, accepted, req, tx, resp>>
           ELSE IF PricePointConflict(w, loc[w].ad, at, price[1])
           THEN Abort(w, "IntegrityError: price_point_ad_dt_price_uniq")
           ELSE /\ pp_seq' = pp_seq + 1
                /\ tx' = [tx EXCEPT ![w].pps = @ \cup
                             {[id |-> pp_seq + 1, ad |-> loc[w].ad,
                               price |-> price[1], currency |-> currency,
                               collected_at |-> at]}]
                /\ loc' = [loc EXCEPT ![w] =
                               CountPrice([@ EXCEPT !.i = @ + 1], TRUE)]
                /\ pc' = [pc EXCEPT ![w] = "loop"]
                /\ UNCHANGED <<secret, targets, ads, price_points, ad_seq,
                               clock, calls, accepted, req, resp>>

\* Ad.target is a foreign key with a database constraint, checked when the
\* transaction commits.
ForeignKeysHold(w) ==
    \A r \in tx[w].ads : r.target_id = None \/ r.target_id[1] \in targets

\* The atomic block ends (lines 98, 130-138): commit and answer 202.
Commit(w) ==
    /\ pc[w] = "commit"
    /\ IF ~ForeignKeysHold(w)
       THEN Abort(w, "IntegrityError: ad_target_fk")
       ELSE /\ ads' = AfterCommit(w).ads
            /\ price_points' = AfterCommit(w).price_points
            /\ tx' = [tx EXCEPT ![w] = NoTx]
            /\ accepted' = accepted \cup {req[w].body}
            /\ resp' = [resp EXCEPT ![w] =
                           Response(202, "accepted", loc[w].created,
                                    loc[w].updated, loc[w].price_points)]
            /\ pc' = [pc EXCEPT ![w] = "done"]
            /\ UNCHANGED <<secret, targets, ad_seq, pp_seq, clock, calls,
                           req, loc>>

\* w waits for a row or a key that o's open transaction holds.
WaitsFor(w, o) ==
    \/ /\ pc[w] = "get"
       /\ \E r \in AdView(w) : RowKey(r) = ItemKey(w) /\ LockedBy(o, r.id)
    \/ /\ pc[w] = "create"
       /\ AdInsertOutcome(w, ItemKey(w)) = "wait"
       /\ InsertedBy(o, ItemKey(w))

\* Variant of Deadlock: the wait cycle is left as it is.
DeadlockLeftWaiting(w) ==
    /\ \E o \in Workers \ {w} : WaitsFor(w, o) /\ WaitsFor(o, w)
    /\ UNCHANGED vars

\* Two transactions wait for each other: the database aborts one of them
\* (with two workers every wait cycle has length two).
Deadlock(w) ==
    /\ \E o \in Workers \ {w} : WaitsFor(w, o) /\ WaitsFor(o, w)
    /\ Abort(w, "OperationalError: deadlock detected")

\* The response has been sent; the worker is free again.
Finish(w) ==
    /\ pc[w] = "done"
    /\ pc' = [pc EXCEPT ![w] = "idle"]
    /\ req' = [req EXCEPT ![w] = NoReq]
    /\ loc' = [loc EXCEPT ![w] = NoLoc]
    /\ resp' = [resp EXCEPT ![w] = NoResp]
    /\ UNCHANGED <<secret, targets, ads, price_points, ad_seq, pp_seq, clock,
                   calls, accepted, tx>>

\* Variant of SetNull: the deletion cascades to the Ads of the target.
SetNullCascades(rows, t) == {r \in rows : r.target_id # Some(t)}

\* on_delete=SET_NULL of Ad.target: the Ad rows after the target t is
\* deleted.  The collector clears the reference with an UPDATE of target_id
\* alone; no row is removed and no other column is written.
SetNull(rows, t) ==
    {IF r.target_id = Some(t) THEN [r EXCEPT !.target_id = None] ELSE r :
        r \in rows}

\* ParseTargetViewSet.destroy, and the cascade from deleting the target's
\* owner (ParseTarget.owner is on_delete=CASCADE), which deletes the target
\* through the same collector: on_delete=SET_NULL clears the reference of
\* every Ad of the target; the update waits for rows an open transaction
\* holds.
DeleteTarget(t) ==
    /\ t \in targets
    /\ \A r \in ads : r.target_id = Some(t) =>
           \A o \in Workers : ~LockedBy(o, r.id)
    /\ targets' = targets \ {t}
    /\ ads' = SetNull(ads, t)
    /\ UNCHANGED <<secret, price_points, ad_seq, pp_seq, clock, calls,
                   accepted, pc, req, loc, tx, resp>>

Next ==
    \/ \E w \in Workers, r \in Requests : Receive(w, r)
    \/ \E w \in Workers : Authenticate(w)
    \/ \E w \in Workers : Parse(w)
    \/ \E w \in Workers : NextItem(w)
    \/ \E w \in Workers : GetAd(w)
    \/ \E w \in Workers : CreateAd(w)
    \/ \E w \in Workers : RecordPrice(w)
    \/ \E w \in Workers : Commit(w)
    \/ \E w \in Workers : Deadlock(w)
    \/ \E w \in Workers : Finish(w)
    \/ \E t \in targets : DeleteTarget(t)

Spec == Init /\ [][Next]_vars

\* One step of the request handler run by worker w, or of the database on
\* its transaction.
Handler(w) ==
    \/ Authenticate(w)
    \/ Parse(w)
    \/ NextItem(w)
    \/ GetAd(w)
    \/ CreateAd(w)
    \/ RecordPrice(w)
    \/ Commit(w)
    \/ Deadlock(w)

\* A request that has been received runs on its own worker: the handler is
\* not suspended for ever while it can take a step, a released lock is
\* granted to its waiter, and the database's deadlock detector fires.
FairSpec == Spec /\ \A w \in Workers : WF_vars(Handler(w))


----------------------------------------------------------------------------
(* Properties.                                                             *)

ItemsOf(payload) == Get(payload, "items", <<>>)
SourceOf(payload) == Get(payload, "source", "avito")
\* indexes of the items that carry a non-empty external_id
Identified(payload) ==
    {n \in 1..Len(ItemsOf(payload)) :
        /\ ItemsOf(payload)[n].kind = "object"
        /\ Get(ItemsOf(payload)[n].fields, "external_id", "") # ""}
CarriedKeys(payload) ==
    {<<SourceOf(payload), ItemsOf(payload)[n].fields.external_id>> :
        n \in Identified(payload)}
\* the last item of the payload that carries key k
LastItem(payload, k) ==
    LET at == {n \in Identified(payload) :
                  ItemsOf(payload)[n].fields.external_id = k[2]}
    IN  ItemsOf(payload)[CHOOSE n \in at : \A m \in at : m <= n].fields

InTransaction(w) == pc[w] \in {"loop", "get", "create", "price", "commit"}
Committed(w) == pc[w] = "done" /\ resp[w].status = 202
\* the step in which w's transaction commits
Commits(w) == pc[w] = "commit" /\ pc'[w] = "done" /\ resp'[w].status = 202
\* the step in which w's transaction fails
Fails(w) == InTransaction(w) /\ pc'[w] = "done" /\ resp'[w].status # 202
Authentic(w) ==
    /\ secret \notin {None, Some("")}
    /\ req[w].signature = HexDigest(secret[1], req[w].body)

\* C1: in every reachable state there is at most one Ad row per (source,
\* external_id), in the committed table and in what each transaction sees,
\* and exactly one for every key carried by a committed batch.
C1_OneAdPerKey ==
    /\ \A r1, r2 \in ads : RowKey(r1) = RowKey(r2) => r1 = r2
    /\ \A w \in Workers : \A r1, r2 \in AdView(w) :
           RowKey(r1) = RowKey(r2) => r1 = r2
    /\ \A b \in accepted : \A k \in CarriedKeys(b.fields) :
           Cardinality({r \in ads : RowKey(r) = k}) = 1

\* C1 witness: two different committed batches carried the same key under
\* different target_ids, one of them after it lost the race for the insert.
C1_Witness ==
    /\ \E b1, b2 \in accepted :
          /\ CarriedKeys(b1.fields) \cap CarriedKeys(b2.fields) # {}
          /\ GetOpt(b1.fields, "target_id") # GetOpt(b2.fields, "target_id")
    /\ \E w \in Workers : Committed(w) /\ loc[w].retry

\* C2 as stated: a committed call whose body had already been committed
\* when the call began leaves the ledger as it was, with or without
\* fetched_at in the body.
C2_Original ==
    [][\A w \in Workers :
          (Commits(w) /\ loc[w].repeat) => price_points' = price_points]_vars

\* C2 amended: a committed call whose body carries fetched_at and had
\* already been committed when the call began leaves the ledger as it was.
C2_ReingestTimedBody ==
    [][\A w \in Workers :
          (/\ Commits(w)
           /\ loc[w].repeat
           /\ "fetched_at" \in DOMAIN req[w].body.fields)
          => price_points' = price_points]_vars

\* C2 witness: a body with fetched_at and a priced item was committed a
\* second time.
C2_Witness ==
    \E w \in Workers :
        /\ Committed(w)
        /\ loc[w].repeat
        /\ "fetched_at" \in DOMAIN req[w].body.fields
        /\ loc[w].price_points > 0
        /\ price_points # {}

\* C3: a batch that fails inside its transaction leaves the committed Ad
\* and PricePoint tables as they were; the tables change only in the step
\* that commits a whole batch (every row the batch wrote appears at once)
\* or when a target is deleted (which leaves the ledger alone).
C3_AllOrNothing ==
    [][/\ \A w \in Workers : Fails(w) => (ads' = ads /\ price_points' = price_points)
       /\ (ads' # ads \/ price_points' # price_points) =>
             \/ \E w \in Workers :
                   /\ Commits(w)
                   /\ tx[w].ads \subseteq ads'
                   /\ tx[w].pps \subseteq price_points'
             \/ targets' # targets /\ price_points' = price_points]_vars

\* C3 witness: a batch failed at a later item after an earlier item had been
\* upserted and priced, and the tables are still empty.
C3_Witness ==
    \E w \in Workers :
        /\ pc[w] = "done"
        /\ resp[w].status = 500
        /\ loc[w].i >= 2
        /\ loc[w].created >= 1
        /\ loc[w].price_points >= 1
        /\ ads = {}
        /\ price_points = {}


\* C4 as stated: a call whose signature is missing, or differs from the
\* HMAC of its raw body, or that arrives while no secret is configured,
\* ends with 401 "Invalid signature" and has parsed nothing.
C4_Rejects401 ==
    \A w \in Workers :
        (pc[w] = "done" /\ ~Authentic(w)) =>
            /\ resp[w].status = 401
            /\ resp[w].detail = "Invalid signature"
            /\ loc[w] = NoLoc

C6_NoConflictSurfaced ==
    \A w \in Workers :
        pc[w] = "done" =>
            resp[w].detail # "OperationalError: deadlock detected"

\* C7 as stated: recording an observation whose (ad, collected_at, price)
\* is already stored never fails the batch, whatever its currency.
C7_RecordIsNoOp ==
    \A w \in Workers :
        pc[w] = "done" =>
            resp[w].detail # "IntegrityError: price_point_ad_dt_price_uniq"

\* C8 as stated: a correctly signed body that is not JSON, or is JSON but
\* not an object, ends with 400 "Invalid JSON".
C8_MalformedIs400 ==
    \A w \in Workers :
        (pc[w] = "done" /\ Authentic(w) /\ req[w].body.kind # "object") =>
            /\ resp[w].status = 400
            /\ resp[w].detail = "Invalid JSON"

\* C9: every step keeps every stored PricePoint row as it is, so the set
\* of (ad, collected_at, price) triples never loses an element.
C9_LedgerAppendOnly ==
    [][/\ price_points \subseteq price_points'
       /\ {<<p.ad, p.collected_at, p.price>> : p \in price_points}
             \subseteq {<<p.ad, p.collected_at, p.price>> : p \in price_points'}]_vars

\* C9 witness: with price points stored, a later batch that had recorded a
\* price was rolled back.
C9_Witness ==
    \E w \in Workers :
        /\ pc[w] = "done"
        /\ resp[w].status = 500
        /\ loc[w].price_points >= 1
        /\ Cardinality(price_points) >= 2

\* C10: when a batch commits, the Ad of every key it carried holds the
\* defaulted values of the batch's last item for that key and the batch's
\* target_id, whatever was stored before.
C10_LastWriteWins ==
    [][\A w \in Workers :
          Commits(w) =>
              \A k \in CarriedKeys(req[w].body.fields) :
                  LET item == LastItem(req[w].body.fields, k)
                  IN  \E r \in ads' :
                        /\ RowKey(r) = k
                        /\ r.title = Get(item, "title", "")
                        /\ r.url = Get(item, "url", "")
                        /\ r.seller_name = Get(item, "seller_name", "")
                        /\ r.seller_id = Get(item, "seller_id", "")
                        /\ r.location = Get(item, "location", "")
                        /\ r.currency = Get(item, "currency", "RUB")
                        /\ r.price_current = GetOpt(item, "price")
                        /\ r.posted_at = GetOpt(item, "posted_at")
                        /\ r.is_active = Get(item, "is_active", TRUE)
                        /\ r.target_id = GetOpt(req[w].body.fields, "target_id")]_vars

\* C10 witness: a committed batch updated an Ad stored with a title, a
\* price and a target by an item that carries none of them.
C10_Witness ==
    \E w \in Workers :
        /\ Committed(w)
        /\ resp[w].updated >= 1
        /\ loc[w].target_id = None
        /\ \E r \in ads :
              /\ r.external_id = "a"
              /\ r.title = ""
              /\ r.price_current = None
              /\ r.target_id = None
              /\ r.last_seen_at > r.created_at
        /\ \E p \in price_points : p.price = 500

\* C11: a batch whose target_id names no existing ParseTarget is tolerated:
\* its call never ends in the failure of the Ad.target foreign key, so the
\* batch is not rolled back for the missing target.
C11_DanglingTargetTolerated ==
    \A w \in Workers :
        (/\ pc[w] = "done"
         /\ loc[w] # NoLoc
         /\ loc[w].target_id # None
         /\ loc[w].target_id[1] \notin targets)
        => resp[w].detail # "IntegrityError: ad_target_fk"

\* indexes of the identified items that carry a price
Priced(payload) ==
    {n \in Identified(payload) : "price" \in DOMAIN ItemsOf(payload)[n].fields}
KeyOf(payload, n) ==
    <<SourceOf(payload), ItemsOf(payload)[n].fields.external_id>>

\* C12: when a batch commits, every item with a non-empty external_id and
\* no price has its Ad in the table and is counted in created + updated,
\* while price_points counts the priced items only and every PricePoint row
\* the batch adds belongs to a priced item of the batch.
C12_UnpricedItem ==
    [][\A w \in Workers :
          Commits(w) =>
              LET payload == req[w].body.fields
              IN  /\ \A n \in Identified(payload) \ Priced(payload) :
                         \E r \in ads' : RowKey(r) = KeyOf(payload, n)
                  /\ resp'[w].created + resp'[w].updated =
                         Cardinality(Identified(payload))
                  /\ resp'[w].price_points = Cardinality(Priced(payload))
                  /\ \A p \in price_points' \ price_points :
                         \E n \in Priced(payload) :
                            /\ ItemsOf(payload)[n].fields.price = p.price
                            /\ \E r \in ads' :
                                  /\ r.id = p.ad
                                  /\ RowKey(r) = KeyOf(payload, n)]_vars

\* C12 witness: a committed batch whose only item has an external_id and no
\* price; its Ad is stored and counted and the ledger is empty.
C12_Witness ==
    \E w \in Workers :
        /\ Committed(w)
        /\ Identified(req[w].body.fields) # {}
        /\ Priced(req[w].body.fields) = {}
        /\ resp[w].created = 1
        /\ resp[w].price_points = 0
        /\ \E r \in ads : RowKey(r) = KeyOf(req[w].body.fields, 1)
        /\ price_points = {}

\* C13: an item whose external_id is absent or empty is passed over: the
\* step that meets it moves to the next item and changes no counter, no
\* table and nothing the transaction has written; no Ad with an empty
\* external_id is ever stored; and when the batch commits, the Ad of every
\* other item is in the table and the counters count those items only.
C13_SkipsUnidentified ==
    [][/\ \A w \in Workers :
             (/\ pc[w] = "loop"
              /\ loc[w].i <= Len(loc[w].items)
              /\ Item(w).kind = "object"
              /\ Get(Item(w).fields, "external_id", "") = ""
              /\ <<pc'[w], loc'[w]>> # <<pc[w], loc[w]>>)
             => /\ pc'[w] = "loop"
                /\ loc'[w] = [loc[w] EXCEPT !.i = @ + 1]
                /\ tx'[w] = tx[w]
                /\ ads' = ads
                /\ price_points' = price_points
       /\ \A w \in Workers :
             \A r \in ads' \cup tx'[w].ads : r.external_id # ""
       /\ \A w \in Workers :
             Commits(w) =>
                 LET payload == req[w].body.fields
                 IN  /\ \A k \in CarriedKeys(payload) :
                            \E r \in ads' : RowKey(r) = k
                     /\ resp'[w].created + resp'[w].updated +
                            Cardinality({n \in 1..Len(ItemsOf(payload)) :
                                            n \notin Identified(payload)})
                            = Len(ItemsOf(payload))]_vars

\* C13 witness: a committed batch of three items, two of them without an
\* identity, which stored and counted the third one only.
C13_Witness ==
    \E w \in Workers :
        /\ Committed(w)
        /\ Len(ItemsOf(req[w].body.fields)) = 3
        /\ Cardinality(Identified(req[w].body.fields)) = 1
        /\ resp[w].created = 1
        /\ resp[w].updated = 0
        /\ resp[w].price_points = 1
        /\ Cardinality(ads) = 1
        /\ Cardinality(price_points) = 1

\* C14 as stated: a batch ingested again after it committed answers
\* created = N and updated = 0, N being the number of its items with a
\* non-empty external_id.
C14_Original ==
    \A w \in Workers :
        (Committed(w) /\ loc[w].repeat)
        => /\ resp[w].created = Cardinality(Identified(req[w].body.fields))
           /\ resp[w].updated = 0

\* C14: a batch ingested again after it committed answers created = 0 and
\* updated = N, N being the number of its items with a non-empty
\* external_id.
C14_SecondCallUpdates ==
    \A w \in Workers :
        (Committed(w) /\ loc[w].repeat)
        => /\ resp[w].created = 0
           /\ resp[w].updated = Cardinality(Identified(req[w].body.fields))

\* C14 witness: the second call of a batch of two Ads has committed.
C14_Witness ==
    \E w \in Workers :
        /\ Committed(w)
        /\ loc[w].repeat
        /\ Cardinality(CarriedKeys(req[w].body.fields)) = 2
        /\ resp[w].updated = 2
        /\ Cardinality(ads) = 2

\* C15: a step that deletes a ParseTarget removes no Ad and no PricePoint:
\* the ledger is unchanged, and every Ad is still there, equal to what it
\* was in every field except that an Ad which referenced a deleted target
\* now has a null target.
C15_TargetDeletionKeepsAds ==
    [][targets' # targets =>
          /\ price_points' = price_points
          /\ Cardinality(ads') = Cardinality(ads)
          /\ \A r \in ads :
                \E n \in ads' :
                    n = [r EXCEPT !.target_id =
                            IF r.target_id # None
                               /\ r.target_id[1] \in targets \ targets'
                            THEN None ELSE r.target_id]]_vars

\* C15 witness: the only target is deleted after batches that all named it
\* were committed; an Ad with a null target and its price point remain.
C15_Witness ==
    /\ targets = {}
    /\ accepted # {}
    /\ \A b \in accepted : GetOpt(b.fields, "target_id") = Some(7)
    /\ \E r \in ads :
          /\ r.target_id = None
          /\ \E p \in price_points :
                p.ad = r.id /\ Some(p.price) = r.price_current

\* the steps a batch may take from one state to the next
Lifecycle ==
    {<<"idle", "received">>,
     <<"received", "authenticated">>, <<"received", "done">>,
     <<"authenticated", "loop">>, <<"authenticated", "done">>,
     <<"loop", "get">>, <<"loop", "commit">>, <<"loop", "done">>,
     <<"get", "create">>, <<"get", "price">>, <<"get", "done">>,
     <<"create", "get">>, <<"create", "price">>, <<"create", "done">>,
     <<"price", "loop">>, <<"price", "done">>,
     <<"commit", "done">>,
     <<"done", "idle">>}

\* C16: every batch goes received, authenticated, parsed, processing in that
\* order; it is parsed only when its signature is valid; its transaction
\* holds writes only after parsing succeeded and while it is processed; it
\* ends with exactly one answer, committed (202) or rejected, and no open
\* transaction; and every batch received eventually ends, also while
\* another batch runs.
C16_BatchLifecycle ==
    /\ [][\A w \in Workers :
              pc'[w] # pc[w] => <<pc[w], pc'[w]>> \in Lifecycle]_vars
    /\ [](\A w \in Workers :
              (pc[w] = "authenticated" \/ InTransaction(w) \/ loc[w] # NoLoc)
              => Authentic(w))
    /\ [](\A w \in Workers :
              /\ InTransaction(w) => loc[w] # NoLoc
              /\ tx[w] # NoTx => InTransaction(w))
    /\ [](\A w \in Workers :
              pc[w] = "done" =>
                  /\ resp[w].status \in {202, 400, 401, 500}
                  /\ resp[w].status = 202 => req[w].body \in accepted)
    /\ \A w \in Workers :
          (pc[w] \notin {"idle", "done"}) ~> (pc[w] = "done")

\* C16 witness: two batches ran into a deadlock; one was aborted and
\* rejected, the other went on and committed.
C16_Witness ==
    \E w \in Workers, o \in Workers :
        /\ pc[w] = "done"
        /\ resp[w].detail = "OperationalError: deadlock detected"
        /\ Committed(o)

\* C17: in the answer of every committed batch, created + updated is the
\* number of items with a non-empty external_id and price_points is the
\* number of those items that carry a price, whether or not a row was
\* inserted for them; a committed body posted again answers created = 0,
\* updated = that number of items, and the same price_points.
C17_Counters ==
    \A w \in Workers :
        Committed(w) =>
            LET payload == req[w].body.fields
            IN  /\ resp[w].created + resp[w].updated =
                       Cardinality(Identified(payload))
                /\ resp[w].price_points = Cardinality(Priced(payload))
                /\ loc[w].repeat =>
                       /\ resp[w].created = 0
                       /\ resp[w].updated = Cardinality(Identified(payload))

\* C17 witness: a body of two priced items with distinct external_ids was
\* posted again after it committed; the answer counts two updates and two
\* price points while the ledger still holds the two rows of the first call.
C17_Witness ==
    \E w \in Workers :
        /\ Committed(w)
        /\ loc[w].repeat
        /\ Cardinality(CarriedKeys(req[w].body.fields)) = 2
        /\ resp[w].created = 0
        /\ resp[w].updated = 2
        /\ resp[w].price_points = 2
        /\ Cardinality(price_points) = 2

\* C18: in every step, every Ad of the table is still in the table after
\* the step with the same id, source, external_id and created_at; its
\* last_seen_at is later when the step commits a batch that carries the
\* Ad's key and is unchanged in every other step.
C18_AdsKeepIdentity ==
    [][\A r \in ads :
          \E n \in ads' :
              /\ n.id = r.id
              /\ n.source = r.source
              /\ n.external_id = r.external_id
              /\ n.created_at = r.created_at
              /\ IF \E w \in Workers :
                        /\ Commits(w)
                        /\ RowKey(r) \in CarriedKeys(req[w].body.fields)
                 THEN n.last_seen_at > r.last_seen_at
                 ELSE n.last_seen_at = r.last_seen_at]_vars

\* C18 witness: after two committed batches one Ad has been seen again,
\* later than it was created, and another Ad, which the second batch did
\* not carry, still has the last_seen_at of its creation.
C18_Witness ==
    \E w \in Workers :
        /\ Committed(w)
        /\ resp[w].updated >= 1
        /\ \E r \in ads, q \in ads :
              /\ RowKey(r) \in CarriedKeys(req[w].body.fields)
              /\ r.last_seen_at > r.created_at
              /\ RowKey(q) \notin CarriedKeys(req[w].body.fields)
              /\ q.last_seen_at = q.created_at

\* C19: in every state of the committed tables, an Ad whose price_current
\* is not null has a PricePoint with that price; and when a batch commits,
\* every Ad it carries has the price of the last item that carries it, with
\* a PricePoint of that price collected at the batch's collection time, or
\* a null price_current when that item has no price.
C19_CurrentPriceInLedger ==
    /\ [](\A r \in ads :
              r.price_current # None =>
                  \E p \in price_points :
                      p.ad = r.id /\ p.price = r.price_current[1])
    /\ [][\A w \in Workers :
              Commits(w) =>
                  \A k \in CarriedKeys(req[w].body.fields) :
                      LET item == LastItem(req[w].body.fields, k)
                      IN  \E r \in ads' :
                            /\ RowKey(r) = k
                            /\ IF "price" \in DOMAIN item
                               THEN /\ r.price_current = Some(item.price)
                                    /\ \E p \in price_points' :
                                          /\ p.ad = r.id
                                          /\ p.price = item.price
                                          /\ p.collected_at =
                                                loc[w].fetched_at
                               ELSE r.price_current = None]_vars

\* C19 witness: a committed batch carried one Ad twice, at 500 and then at
\* 600; the Ad's current price is 600 and the ledger holds both prices at
\* the batch's collection time.
C19_Witness ==
    \E w \in Workers :
        /\ Committed(w)
        /\ \E r \in ads :
              /\ RowKey(r) \in CarriedKeys(req[w].body.fields)
              /\ r.price_current = Some(600)
              /\ \E p \in price_points, q \in price_points :
                    /\ p.ad = r.id /\ p.price = 600
                    /\ p.collected_at = loc[w].fetched_at
                    /\ q.ad = r.id /\ q.price = 500
                    /\ q.collected_at = loc[w].fetched_at

\* C20: when a batch commits, its created counter is the number of Ad rows
\* the commit adds, which is the number of distinct keys of the batch that
\* have no Ad in the table the batch is committed to (and at most the number
\* that had none when the call began); every other item with a non-empty
\* external_id, a repetition of a key included, is counted as updated.
C20_CreatedCountsNewKeys ==
    [][\A w \in Workers :
          Commits(w) =>
              LET payload == req[w].body.fields
                  fresh == {k \in CarriedKeys(payload) :
                               ~\E r \in ads : RowKey(r) = k}
              IN  /\ resp'[w].created = Cardinality(fresh)
                  /\ resp'[w].created = Cardinality(ads') - Cardinality(ads)
                  /\ \A k \in fresh : \E r \in ads' : RowKey(r) = k
                  /\ resp'[w].updated =
                         Cardinality(Identified(payload)) - Cardinality(fresh)
                  /\ resp'[w].created <=
                         Cardinality(CarriedKeys(payload) \ loc[w].before)]_vars

\* C20 witness: a committed batch carried one new key in two items; it
\* answers created = 1 and updated = 1 and the table holds one Ad.
C20_Witness ==
    \E w \in Workers :
        /\ Committed(w)
        /\ Cardinality(Identified(req[w].body.fields)) = 2
        /\ Cardinality(CarriedKeys(req[w].body.fields)) = 1
        /\ resp[w].created = 1
        /\ resp[w].updated = 1
        /\ Cardinality(ads) = 1

====
